---- MODULE Spec2Model ----
(***************************************************************************)
(* Transaction data cache of the Move VM (TransactionDataCache in          *)
(* move-vm/runtime/src/data_cache.rs) and the effects model it produces    *)
(* (Data / AccountChangeSet / ChangeSet in move-vm/types/src/effects.rs).  *)
(*                                                                         *)
(* One cache instance is owned by one transaction.  The Resolver (remote)  *)
(* is an immutable snapshot chosen at construction.  Every DataStore       *)
(* method is one action; its return value and the Resolver queries it      *)
(* made are recorded in lastOp.                                            *)
(***************************************************************************)
EXTENDS Integers, Sequences, FiniteSets, TLC

\* ------------------------------------------------------------------------
\* Bounds of the model
\* ------------------------------------------------------------------------
MaxVal == 2
MaxEvents == 2

\* the addresses the transaction works on, in the order of AccountAddress
Addrs == {1, 2}
AddrOrder == <<1, 2>>
\* modules are published and looked up at these addresses
ModuleAddrs == {1}
\* a sender may be an address the transaction never touches
Senders == {0} \cup Addrs
Vals == 1..MaxVal

\* ------------------------------------------------------------------------
\* Generic helpers: Option / Result values and BTreeMap operations
\* ------------------------------------------------------------------------
None == [some |-> FALSE]
Some(x) == [some |-> TRUE, v |-> x]

Ok(x) == [ok |-> TRUE, v |-> x]
Err(code) == [ok |-> FALSE, err |-> code]
\* an error with the message attached to it (with_message)
ErrMsg(code, msg) == [ok |-> FALSE, err |-> code, msg |-> msg]

EmptyMap == [k \in {} |-> 0]

\* BTreeMap::insert: the entry of k is set, replacing any previous one
MapInsert(m, k, v) == [x \in (DOMAIN m) \cup {k} |-> IF x = k THEN v ELSE m[x]]

\* the keys of m in the order of the sequence `order` (BTreeMap iteration)
RECURSIVE KeysInOrder(_, _)
KeysInOrder(order, keys) ==
    IF order = <<>> THEN <<>>
    ELSE IF Head(order) \in keys
         THEN <<Head(order)>> \o KeysInOrder(Tail(order), keys)
         ELSE KeysInOrder(Tail(order), keys)

\* ------------------------------------------------------------------------
\* Types, tags, layouts and values (the loader and the value codec)
\* ------------------------------------------------------------------------
\* Runtime types handed to the cache.  Coin is a struct type; U8 is a
\* primitive (its tag is not a struct tag); NoTag has a layout but no type
\* tag; NoLayout has a struct tag but no layout.
Types == {"Coin", "U8", "NoTag", "NoLayout"}
TypeOrder == <<"Coin", "NoLayout", "NoTag", "U8">>

StructTag(name) == [kind |-> "Struct", name |-> name]

type_to_type_tag(ty) ==
    CASE ty = "Coin" -> Ok(StructTag("Coin"))
      [] ty = "NoLayout" -> Ok(StructTag("NoLayout"))
      [] ty = "U8" -> Ok([kind |-> "U8", name |-> "U8"])
      [] OTHER -> Err("LOADER_ERROR")

type_to_type_layout(ty) ==
    CASE ty = "Coin" -> Ok("Coin")
      [] ty = "U8" -> Ok("U8")
      [] ty = "NoTag" -> Ok("U8")
      [] OTHER -> Err("LOADER_ERROR")

\* A value is a Coin struct {value: u8, frozen: bool} or a u8.
Value(kind, n) == [kind |-> kind, n |-> n]
CoinValues == {Value("Coin", n) : n \in Vals}

\* Value::simple_serialize: None when the value does not fit the layout
simple_serialize(val, layout) ==
    IF val.kind # layout THEN None
    ELSE IF layout = "Coin" THEN Some(<<val.n, 0>>)
    ELSE Some(<<val.n>>)

\* Value::simple_deserialize: None when the bytes do not decode
simple_deserialize(blob, layout) ==
    IF layout = "Coin"
    THEN IF Len(blob) = 2 /\ blob[2] = 0 THEN Some(Value("Coin", blob[1])) ELSE None
    ELSE IF Len(blob) = 1 THEN Some(Value("U8", blob[1])) ELSE None

\* ------------------------------------------------------------------------
\* GlobalValue: the mutation-tracking slot of one resource
\* ------------------------------------------------------------------------
GvNone == [st |-> "None"]
GvDeleted == [st |-> "Deleted"]
GvFresh(val) == [st |-> "Fresh", val |-> val]
GvCached(val, dirty) == [st |-> "Cached", val |-> val, dirty |-> dirty]

\* GlobalValue::none and GlobalValue::cached (a struct value is required)
GlobalValue_none == GvNone
GlobalValue_cached(val) ==
    IF val.kind = "Coin" THEN Ok(GvCached(val, FALSE))
    ELSE Err("INTERNAL_TYPE_ERROR")

gv_exists(gv) == gv.st \in {"Fresh", "Cached"}

gv_move_to(gv, val) ==
    CASE gv.st = "None" -> Ok(GvFresh(val))
      [] gv.st = "Deleted" -> Ok(GvCached(val, TRUE))
      [] OTHER -> Err("RESOURCE_ALREADY_EXISTS")

gv_move_from(gv) ==
    CASE gv.st = "Fresh" -> Ok(GvNone)
      [] gv.st = "Cached" -> Ok(GvDeleted)
      [] OTHER -> Err("MISSING_DATA")

\* a write through borrow_global_mut
gv_write(gv, val) ==
    CASE gv.st = "Fresh" -> Ok(GvFresh(val))
      [] gv.st = "Cached" -> Ok(GvCached(val, TRUE))
      [] OTHER -> Err("MISSING_DATA")

\* GlobalValue::into_effect: Option<Op<Value>>
gv_into_effect(gv) ==
    CASE gv.st = "None" -> None
      [] gv.st = "Deleted" -> Some([op |-> "Delete"])
      [] gv.st = "Fresh" -> Some([op |-> "New", data |-> gv.val])
      [] gv.st = "Cached" ->
            IF gv.dirty THEN Some([op |-> "Modify", data |-> gv.val]) ELSE None

gv_is_mutated(gv) ==
    CASE gv.st = "None" -> FALSE
      [] gv.st = "Deleted" -> TRUE
      [] gv.st = "Fresh" -> TRUE
      [] gv.st = "Cached" -> gv.dirty

\* ------------------------------------------------------------------------
\* The Resolver: an immutable snapshot answering point reads
\* ------------------------------------------------------------------------
ModuleNames == {"M"}
NameOrder == <<"M">>
ModuleId(addr, name) == [address |-> addr, name |-> name]
ModuleIds == {ModuleId(a, n) : a \in ModuleAddrs, n \in ModuleNames}
ModuleBlobs == {<<10>>, <<20>>}

\* What a point read answers: Ok(Some(bytes)), Ok(None) or an error.  A
\* resource's bytes may fail to decode (BadBlob).
ResErr == [ok |-> FALSE, err |-> "IO_FAILURE"]
BadBlob == <<9>>
ResourceAnswers == <<Ok(Some(<<1, 0>>)), Ok(None), ResErr, Ok(Some(BadBlob))>>
ModuleAnswers == <<Ok(None), Ok(Some(<<10>>)), ResErr>>

ResourceKeys == Addrs \X {StructTag("Coin")}

\* The snapshots a transaction may run against: snapshot i shifts the
\* answers by i, so that every key meets every kind of answer.
Resolver(i) ==
    [resources |->
        [k \in ResourceKeys |->
            ResourceAnswers[((k[1] + i) % Len(ResourceAnswers)) + 1]],
     modules |->
        [id \in ModuleIds |->
            ModuleAnswers[((id.address + i) % Len(ModuleAnswers)) + 1]]]

Resolvers == {Resolver(i) : i \in 0..(Len(ResourceAnswers) - 1)}

\* ------------------------------------------------------------------------
\* Effects model: Data, AccountChangeSet, ChangeSet
\* ------------------------------------------------------------------------
Op_New(data) == [op |-> "New", data |-> data]
Op_Modify(data) == [op |-> "Modify", data |-> data]
Op_Delete == [op |-> "Delete"]

Data_Serialized(blob) == [form |-> "Serialized", blob |-> blob]
Data_Cached(value, layout) == [form |-> "Cached", value |-> value, layout |-> layout]

AccountChangeSet_from_modules_resources(modules, resources) ==
    [modules |-> modules, resources |-> resources]

AccountChangeSet_new == [modules |-> EmptyMap, resources |-> EmptyMap]

\* A `&mut self` method returning Result<()> yields [ret, self]: the
\* result and the receiver after the call.
\* add_module_op as a plain insert: an occupied name is overwritten
AccountChangeSet_add_module_op_Overwrite(self, name, op) ==
    [ret |-> Ok(<<>>), self |-> [self EXCEPT !.modules = MapInsert(@, name, op)]]

AccountChangeSet_add_module_op(self, name, op) ==
    IF name \in DOMAIN self.modules
    THEN [ret |-> Err("Module already exists"), self |-> self]
    ELSE [ret |-> Ok(<<>>),
          self |-> [self EXCEPT !.modules = MapInsert(@, name, op)]]

AccountChangeSet_add_resource_op(self, struct_tag, op) ==
    IF struct_tag \in DOMAIN self.resources
    THEN [ret |-> Err("Resource already exists"), self |-> self]
    ELSE [ret |-> Ok(<<>>),
          self |-> [self EXCEPT !.resources = MapInsert(@, struct_tag, op)]]

ChangeSet_new == [accounts |-> EmptyMap]

ChangeSet_add_account_changeset(self, addr, account_changeset) ==
    IF addr \in DOMAIN self.accounts
    THEN [ret |-> Err("Failed to add account change set. Account already exists."),
          self |-> self]
    ELSE [ret |-> Ok(<<>>),
          self |-> [accounts |-> MapInsert(self.accounts, addr, account_changeset)]]

ChangeSet_get_or_insert_account_changeset(self, addr) ==
    IF addr \in DOMAIN self.accounts THEN self
    ELSE [accounts |-> MapInsert(self.accounts, addr, AccountChangeSet_new)]

ChangeSet_add_module_op(self, module_id, op) ==
    LET self1 == ChangeSet_get_or_insert_account_changeset(self, module_id.address)
        r == AccountChangeSet_add_module_op(self1.accounts[module_id.address],
                                            module_id.name, op)
    IN  [ret |-> r.ret,
         self |-> [accounts |-> [self1.accounts EXCEPT ![module_id.address] = r.self]]]

ChangeSet_add_resource_op(self, addr, struct_tag, op) ==
    LET self1 == ChangeSet_get_or_insert_account_changeset(self, addr)
        r == AccountChangeSet_add_resource_op(self1.accounts[addr], struct_tag, op)
    IN  [ret |-> r.ret,
         self |-> [accounts |-> [self1.accounts EXCEPT ![addr] = r.self]]]

\* Data::simple_serialize
Data_simple_serialize(data) ==
    IF data.form = "Serialized" THEN Some(data.blob)
    ELSE simple_serialize(data.value, data.layout)

\* Op::and_then with Data::simple_serialize(..).ok_or_else(INTERNAL_TYPE_ERROR)
Op_and_then_serialize(op) ==
    IF op.op = "Delete" THEN Ok(Op_Delete)
    ELSE LET blob == Data_simple_serialize(op.data) IN
         IF ~blob.some THEN Err("INTERNAL_TYPE_ERROR")
         ELSE Ok([op |-> op.op, data |-> blob.v])

\* the resource loop leaving out a payload it cannot encode
RECURSIVE ResourcesAsBlobs_SkipFailed(_, _, _)
ResourcesAsBlobs_SkipFailed(resources, tags, resources_as_blobs) ==
    IF tags = <<>> THEN Ok(resources_as_blobs)
    ELSE LET struct_tag == Head(tags)
             new_op == Op_and_then_serialize(resources[struct_tag])
         IN  IF ~new_op.ok
             THEN ResourcesAsBlobs_SkipFailed(resources, Tail(tags), resources_as_blobs)
             ELSE ResourcesAsBlobs_SkipFailed(resources, Tail(tags),
                     MapInsert(resources_as_blobs, struct_tag, new_op.v))

\* the resource loop of TryFrom<AccountChangeSet>: Ok(resources_as_blobs)
\* or the first error
RECURSIVE ResourcesAsBlobs(_, _, _)
ResourcesAsBlobs(resources, tags, resources_as_blobs) ==
    IF tags = <<>> THEN Ok(resources_as_blobs)
    ELSE LET struct_tag == Head(tags)
             new_op == Op_and_then_serialize(resources[struct_tag])
         IN  IF ~new_op.ok THEN new_op
             ELSE ResourcesAsBlobs(resources, Tail(tags),
                                   MapInsert(resources_as_blobs, struct_tag, new_op.v))

\* struct tags in the order of StructTag
TagOrder == <<StructTag("Coin"), StructTag("NoLayout")>>

\* TryFrom<AccountChangeSet> for BlobAccountChangeSet
BlobAccountChangeSet_try_from(account_change_set) ==
    LET modules == account_change_set.modules
        resources == account_change_set.resources
        res == ResourcesAsBlobs(resources, KeysInOrder(TagOrder, DOMAIN resources),
                                EmptyMap)
    IN  IF ~res.ok THEN res
        ELSE Ok(AccountChangeSet_from_modules_resources(modules, res.v))

\* the account loop of TryFrom<ChangeSet>: Ok(new_change_set) or the first error
RECURSIVE BlobAccountsLoop(_, _, _)
BlobAccountsLoop(accounts, addrs, new_change_set) ==
    IF addrs = <<>> THEN Ok(new_change_set)
    ELSE LET addr == Head(addrs)
             converted == BlobAccountChangeSet_try_from(accounts[addr])
         IN  IF ~converted.ok THEN converted
             ELSE LET added == ChangeSet_add_account_changeset(new_change_set, addr,
                                                               converted.v)
                  IN  IF ~added.ret.ok THEN Err("PANIC: accounts should be unique")
                      ELSE BlobAccountsLoop(accounts, Tail(addrs), added.self)

\* TryFrom<ChangeSet> for BlobChangeSet
BlobChangeSet_try_from(change_set) ==
    LET accounts == change_set.accounts IN
    BlobAccountsLoop(accounts, KeysInOrder(AddrOrder, DOMAIN accounts), ChangeSet_new)

BuilderInit ==
    [acs |-> AccountChangeSet_new, cs |-> ChangeSet_new,
     last |-> [op |-> "new", args |-> <<>>, ret |-> Ok(<<>>)]]

\* remote, account_map, event_data: the fields of TransactionDataCache.
\* handle: the slot the interpreter holds a &mut GlobalValue to, if any.
\* consumed: into_effects has taken the cache.
\* lastOp: the last call, its arguments, its result, its Resolver queries.
\* hist: what has been asked of the cache so far (history only; no
\* operation reads it): the resource keys load_resource was called for
\* with a type the loader resolves, those it returned a slot for, those
\* the interpreter changed through a handle, the last publish of every
\* module id, and the accepted emit_event calls in order.
\* builder: an AccountChangeSet and a ChangeSet being built by a client of
\* the effects model, with the last builder call and its result.
VARIABLES remote, account_map, event_data, handle, consumed, lastOp, hist, builder

vars == <<remote, account_map, event_data, handle, consumed, lastOp, hist, builder>>

get_resource(addr, tag) == remote.resources[<<addr, tag>>]
get_module(id) == remote.modules[id]

\* ------------------------------------------------------------------------
\* TransactionDataCache
\* ------------------------------------------------------------------------
AccountDataCache_new == [data_map |-> EmptyMap, module_map |-> EmptyMap]

\* TransactionDataCache::new
Init ==
    /\ remote \in Resolvers
    /\ account_map = EmptyMap
    /\ event_data = <<>>
    /\ handle = None
    /\ consumed = FALSE
    /\ lastOp = [op |-> "new", args |-> <<>>, ret |-> Ok(<<>>), queried |-> {}]
    /\ hist = [called |-> {}, loaded |-> {}, written |-> {},
               published |-> EmptyMap, emitted |-> <<>>]
    /\ builder = BuilderInit

\* the entry set anew on every call, also when the key is present
get_mut_or_insert_with_Always(map, k, gen) == MapInsert(map, k, gen)

get_mut_or_insert_with(map, k, gen) ==
    IF k \notin DOMAIN map THEN MapInsert(map, k, gen) ELSE map

SetLast(op, args, ret, queried) ==
    lastOp' = [op |-> op, args |-> args, ret |-> ret, queried |-> queried]

\* ---- load_resource ------------------------------------------------------
\* What load_resource returns on success: the slot the &mut GlobalValue
\* points to and load_res (None, Some(None) or Some(Some(byte length))).
LoadedSlot(addr, ty, load_res) == Ok([slot |-> <<addr, ty>>, load_res |-> load_res])

\* the first load installing an absent slot before it asks the Resolver,
\* and leaving it there when the Resolver or the decoding fails
FirstLoadOutcome_InstallFirst(map1, addr, ty) ==
    LET fail(code, q) == [map |-> map1, ret |-> Err(code), queried |-> q]
        tagRes == type_to_type_tag(ty)
    IN  IF ~tagRes.ok THEN fail(tagRes.err, {})
        ELSE IF tagRes.v.kind # "Struct" THEN fail("INTERNAL_TYPE_ERROR", {})
        ELSE
        LET ty_tag == tagRes.v
            layoutRes == type_to_type_layout(ty) IN
        IF ~layoutRes.ok THEN fail(layoutRes.err, {})
        ELSE
        LET ty_layout == layoutRes.v
            q == {<<"get_resource", addr, ty_tag>>}
            answer == get_resource(addr, ty_tag)
            with(gv) ==
                [map1 EXCEPT ![addr].data_map =
                    MapInsert(@, ty, [layout |-> ty_layout, gv |-> gv])]
            failLate(code) ==
                [map |-> with(GlobalValue_none), ret |-> Err(code), queried |-> q]
            install(gv, load_res) ==
                [map |-> with(gv), ret |-> LoadedSlot(addr, ty, load_res), queried |-> q]
        IN  IF ~answer.ok THEN failLate("UNKNOWN_INVARIANT_VIOLATION_ERROR")
            ELSE IF answer.v.some
            THEN LET blob == answer.v.v
                     valRes == simple_deserialize(blob, ty_layout)
                 IN  IF ~valRes.some THEN failLate("FAILED_TO_DESERIALIZE_RESOURCE")
                     ELSE install(GlobalValue_cached(valRes.v).v, Some(Some(Len(blob))))
            ELSE install(GlobalValue_none, Some(None))

\* the first load taking bytes that do not decode for an absent resource
FirstLoadOutcome_AbsentOnBadBytes(map1, addr, ty) ==
    LET fail(code, q) == [map |-> map1, ret |-> Err(code), queried |-> q]
        tagRes == type_to_type_tag(ty)
    IN  IF ~tagRes.ok THEN fail(tagRes.err, {})
        ELSE IF tagRes.v.kind # "Struct" THEN fail("INTERNAL_TYPE_ERROR", {})
        ELSE
        LET ty_tag == tagRes.v
            layoutRes == type_to_type_layout(ty) IN
        IF ~layoutRes.ok THEN fail(layoutRes.err, {})
        ELSE
        LET ty_layout == layoutRes.v
            q == {<<"get_resource", addr, ty_tag>>}
            answer == get_resource(addr, ty_tag)
            install(gv, load_res) ==
                [map |-> [map1 EXCEPT ![addr].data_map =
                            MapInsert(@, ty, [layout |-> ty_layout, gv |-> gv])],
                 ret |-> LoadedSlot(addr, ty, load_res),
                 queried |-> q]
        IN  IF ~answer.ok THEN fail("UNKNOWN_INVARIANT_VIOLATION_ERROR", q)
            ELSE IF answer.v.some /\ simple_deserialize(answer.v.v, ty_layout).some
            THEN install(GlobalValue_cached(simple_deserialize(answer.v.v, ty_layout).v).v,
                         Some(Some(Len(answer.v.v))))
            ELSE install(GlobalValue_none, Some(None))

\* The body of `if !account_cache.data_map.contains_key(ty)`: resolve the
\* type, query the Resolver, install the slot.  map1 already holds addr.
FirstLoadOutcome(map1, addr, ty) ==
    LET fail(code, q) == [map |-> map1, ret |-> Err(code), queried |-> q]
        tagRes == type_to_type_tag(ty)
    IN  IF ~tagRes.ok THEN fail(tagRes.err, {})
        ELSE IF tagRes.v.kind # "Struct" THEN fail("INTERNAL_TYPE_ERROR", {})
        ELSE
        LET ty_tag == tagRes.v
            layoutRes == type_to_type_layout(ty) IN
        IF ~layoutRes.ok THEN fail(layoutRes.err, {})
        ELSE
        LET ty_layout == layoutRes.v
            q == {<<"get_resource", addr, ty_tag>>}
            answer == get_resource(addr, ty_tag)
            install(gv, load_res) ==
                [map |-> [map1 EXCEPT ![addr].data_map =
                            MapInsert(@, ty, [layout |-> ty_layout, gv |-> gv])],
                 ret |-> LoadedSlot(addr, ty, load_res),
                 queried |-> q]
        IN  IF ~answer.ok THEN fail("UNKNOWN_INVARIANT_VIOLATION_ERROR", q)
            ELSE IF answer.v.some
            THEN LET blob == answer.v.v
                     load_res == Some(Some(Len(blob)))
                     valRes == simple_deserialize(blob, ty_layout)
                 IN  IF ~valRes.some THEN fail("FAILED_TO_DESERIALIZE_RESOURCE", q)
                     ELSE LET gvRes == GlobalValue_cached(valRes.v)
                          IN  IF ~gvRes.ok THEN fail(gvRes.err, q)
                              ELSE install(gvRes.v, load_res)
            ELSE install(GlobalValue_none, Some(None))

\* load_resource without the contains_key test: every call loads anew
LoadResourceOutcome_Reload(addr, ty) ==
    FirstLoadOutcome(get_mut_or_insert_with(account_map, addr, AccountDataCache_new),
                     addr, ty)

\* load_resource reporting "not found" again for a slot it already holds
LoadResourceOutcome_SignalAgain(addr, ty) ==
    LET map1 == get_mut_or_insert_with(account_map, addr, AccountDataCache_new) IN
    IF ty \in DOMAIN map1[addr].data_map
    THEN [map |-> map1, ret |-> LoadedSlot(addr, ty, Some(None)), queried |-> {}]
    ELSE FirstLoadOutcome(map1, addr, ty)

\* load_resource(addr, ty) on the account map `map`: the new account map,
\* the value returned and the Resolver queries made
LoadResourceOn(map, addr, ty) ==
    LET map1 == get_mut_or_insert_with(map, addr, AccountDataCache_new) IN
    IF ty \in DOMAIN map1[addr].data_map
    THEN [map |-> map1, ret |-> LoadedSlot(addr, ty, None), queried |-> {}]
    ELSE FirstLoadOutcome(map1, addr, ty)

\* The outcome of load_resource(addr, ty) on the cache's account map.
LoadResourceOutcome(addr, ty) == LoadResourceOn(account_map, addr, ty)

load_resource(addr, ty) ==
    LET out == LoadResourceOutcome(addr, ty) IN
    /\ ~consumed
    /\ account_map' = out.map
    /\ handle' = IF out.ret.ok THEN Some(out.ret.v.slot) ELSE None
    /\ SetLast("load_resource", <<addr, ty>>, out.ret, out.queried)
    /\ hist' = [hist EXCEPT !.called =
                                IF out.ret.ok \/ out.queried # {}
                                THEN @ \cup {<<addr, ty>>} ELSE @,
                            !.loaded = IF out.ret.ok THEN @ \cup {<<addr, ty>>} ELSE @]
    /\ UNCHANGED <<builder, remote, event_data, consumed>>

\* ---- the interpreter acting through the handle load_resource returned ----
\* the account map after the slot of key was set to gv through its handle
SlotOn(map, key, gv) == [map EXCEPT ![key[1]].data_map[key[2]].gv = gv]

SlotGv == account_map[handle.v[1]].data_map[handle.v[2]].gv

\* A slot operation the slot refuses aborts the transaction, which
\* discards the cache: only the accepted ones continue it.
ApplyToSlot(op, args, res) ==
    /\ ~consumed
    /\ handle.some
    /\ res.ok
    /\ account_map' = SlotOn(account_map, handle.v, res.v)
    /\ SetLast(op, <<handle.v[1], handle.v[2]>> \o args, Ok(<<>>), {})
    /\ hist' = [hist EXCEPT !.written = @ \cup {handle.v}]
    /\ UNCHANGED <<builder, remote, event_data, handle, consumed>>

move_to(val) == handle.some /\ ApplyToSlot("move_to", <<val>>, gv_move_to(SlotGv, val))

move_from == handle.some /\ ApplyToSlot("move_from", <<>>, gv_move_from(SlotGv))

write_ref(val) == handle.some /\ ApplyToSlot("write_ref", <<val>>, gv_write(SlotGv, val))

\* ---- modules -------------------------------------------------------------
\* load_module going to the Resolver without looking at the write set
LoadModuleOutcome_RemoteOnly(module_id) ==
    LET answer == get_module(module_id)
        q == {<<"get_module", module_id>>}
    IN  IF ~answer.ok
        THEN [ret |-> ErrMsg("UNKNOWN_INVARIANT_VIOLATION_ERROR",
                             <<"Unexpected storage error", answer.err>>),
              queried |-> q]
        ELSE IF answer.v.some
        THEN [ret |-> Ok(answer.v.v), queried |-> q]
        ELSE [ret |-> ErrMsg("LINKER_ERROR", <<"Cannot find in data cache", module_id>>),
              queried |-> q]

\* load_module reporting a failure of the Resolver as a missing module
LoadModuleOutcome_StorageAsLinker(module_id) ==
    LET addr == module_id.address
        name == module_id.name
    IN  IF addr \in DOMAIN account_map /\ name \in DOMAIN account_map[addr].module_map
        THEN [ret |-> Ok(account_map[addr].module_map[name].blob), queried |-> {}]
        ELSE LET answer == get_module(module_id)
                 q == {<<"get_module", module_id>>}
             IN  IF answer.ok /\ answer.v.some
                 THEN [ret |-> Ok(answer.v.v), queried |-> q]
                 ELSE [ret |-> ErrMsg("LINKER_ERROR",
                                      <<"Cannot find in data cache", module_id>>),
                       queried |-> q]

LoadModuleOutcome(module_id) ==
    LET addr == module_id.address
        name == module_id.name
    IN  IF addr \in DOMAIN account_map /\ name \in DOMAIN account_map[addr].module_map
        THEN [ret |-> Ok(account_map[addr].module_map[name].blob), queried |-> {}]
        ELSE LET answer == get_module(module_id)
                 q == {<<"get_module", module_id>>}
             IN  IF ~answer.ok
                 THEN [ret |-> ErrMsg("UNKNOWN_INVARIANT_VIOLATION_ERROR",
                                      <<"Unexpected storage error", answer.err>>),
                       queried |-> q]
                 ELSE IF answer.v.some
                 THEN [ret |-> Ok(answer.v.v), queried |-> q]
                 ELSE [ret |-> ErrMsg("LINKER_ERROR",
                                      <<"Cannot find in data cache", module_id>>),
                       queried |-> q]

load_module(module_id) ==
    LET out == LoadModuleOutcome(module_id) IN
    /\ ~consumed
    /\ handle' = None
    /\ SetLast("load_module", <<module_id>>, out.ret, out.queried)
    /\ UNCHANGED <<builder, remote, account_map, event_data, consumed, hist>>

\* publish_module writing the module through to the Resolver as well
publish_module_WriteThrough(module_id, blob, is_republishing) ==
    LET addr == module_id.address
        map1 == get_mut_or_insert_with(account_map, addr, AccountDataCache_new)
    IN  /\ ~consumed
        /\ account_map' =
              [map1 EXCEPT ![addr].module_map =
                  MapInsert(@, module_id.name,
                            [blob |-> blob, is_republishing |-> is_republishing])]
        /\ remote' = [remote EXCEPT !.modules[module_id] = Ok(Some(blob))]
        /\ handle' = None
        /\ SetLast("publish_module", <<module_id, blob, is_republishing>>, Ok(<<>>), {})
        /\ hist' = [hist EXCEPT !.published =
                        MapInsert(@, module_id,
                                  [blob |-> blob, is_republishing |-> is_republishing])]
        /\ UNCHANGED <<builder, event_data, consumed>>

\* publish_module replacing the bytes of a module it already holds but
\* keeping the flag stored first
PublishOn_KeepFlag(map, module_id, blob, is_republishing) ==
    LET addr == module_id.address
        map1 == get_mut_or_insert_with(map, addr, AccountDataCache_new)
        held == module_id.name \in DOMAIN map1[addr].module_map
    IN  [map1 EXCEPT ![addr].module_map =
            MapInsert(@, module_id.name,
                      [blob |-> blob,
                       is_republishing |->
                          IF held THEN map1[addr].module_map[module_id.name].is_republishing
                          ELSE is_republishing])]

\* the account map after publish_module on the account map `map`
PublishOn(map, module_id, blob, is_republishing) ==
    LET addr == module_id.address
        map1 == get_mut_or_insert_with(map, addr, AccountDataCache_new)
    IN  [map1 EXCEPT ![addr].module_map =
            MapInsert(@, module_id.name,
                      [blob |-> blob, is_republishing |-> is_republishing])]

\* lastOp also records the entry module_map.insert replaced, if any
publish_module(module_id, blob, is_republishing) ==
    LET addr == module_id.address
        replaced ==
            IF addr \in DOMAIN account_map
                  /\ module_id.name \in DOMAIN account_map[addr].module_map
            THEN Some(account_map[addr].module_map[module_id.name])
            ELSE None
    IN  /\ ~consumed
        /\ account_map' = PublishOn(account_map, module_id, blob, is_republishing)
        /\ handle' = None
        /\ lastOp' = [op |-> "publish_module",
                      args |-> <<module_id, blob, is_republishing>>,
                      ret |-> Ok(<<>>), queried |-> {}, replaced |-> replaced]
        /\ hist' = [hist EXCEPT !.published =
                        MapInsert(@, module_id,
                                  [blob |-> blob, is_republishing |-> is_republishing])]
        /\ UNCHANGED <<builder, remote, event_data, consumed>>

\* exists_module taking a failure of the Resolver for "absent"
ExistsModuleOutcome_AbsentOnError(module_id) ==
    LET addr == module_id.address
        name == module_id.name
    IN  IF addr \in DOMAIN account_map /\ name \in DOMAIN account_map[addr].module_map
        THEN [ret |-> Ok(TRUE), queried |-> {}]
        ELSE LET answer == get_module(module_id)
                 q == {<<"get_module", module_id>>}
             IN  [ret |-> Ok(answer.ok /\ answer.v.some), queried |-> q]

\* exists_module answering from the write set alone
ExistsModuleOutcome_LocalOnly(module_id) ==
    LET addr == module_id.address
        name == module_id.name
    IN  [ret |-> Ok(addr \in DOMAIN account_map
                      /\ name \in DOMAIN account_map[addr].module_map),
         queried |-> {}]

\* exists_module going to the Resolver without looking at the write set
ExistsModuleOutcome_RemoteOnly(module_id) ==
    LET answer == get_module(module_id)
        q == {<<"get_module", module_id>>}
    IN  IF ~answer.ok
        THEN [ret |-> Err("STORAGE_ERROR"), queried |-> q]
        ELSE [ret |-> Ok(answer.v.some), queried |-> q]

ExistsModuleOutcome(module_id) ==
    LET addr == module_id.address
        name == module_id.name
    IN  IF addr \in DOMAIN account_map /\ name \in DOMAIN account_map[addr].module_map
        THEN [ret |-> Ok(TRUE), queried |-> {}]
        ELSE LET answer == get_module(module_id)
                 q == {<<"get_module", module_id>>}
             IN  IF ~answer.ok
                 THEN [ret |-> Err("STORAGE_ERROR"), queried |-> q]
                 ELSE [ret |-> Ok(answer.v.some), queried |-> q]

\* exists_module creating the account entry the way publish_module does
exists_module_Touch(module_id) ==
    LET out == ExistsModuleOutcome(module_id) IN
    /\ ~consumed
    /\ account_map' =
          get_mut_or_insert_with(account_map, module_id.address, AccountDataCache_new)
    /\ handle' = None
    /\ SetLast("exists_module", <<module_id>>, out.ret, out.queried)
    /\ UNCHANGED <<builder, remote, event_data, consumed, hist>>

exists_module(module_id) ==
    LET out == ExistsModuleOutcome(module_id) IN
    /\ ~consumed
    /\ handle' = None
    /\ SetLast("exists_module", <<module_id>>, out.ret, out.queried)
    /\ UNCHANGED <<builder, remote, account_map, event_data, consumed, hist>>

\* ---- events --------------------------------------------------------------
\* What the interpreter emits: an event that converts, one whose type has
\* no tag, one whose value does not fit its layout, one whose type has no
\* layout.  It numbers the events it emits consecutively.
EventInputs ==
    { [guid |-> <<1>>, ty |-> "U8", val |-> Value("U8", 1)],
      [guid |-> <<2>>, ty |-> "NoTag", val |-> Value("U8", 1)],
      [guid |-> <<3>>, ty |-> "U8", val |-> Value("Coin", 1)],
      [guid |-> <<4>>, ty |-> "NoLayout", val |-> Value("U8", 1)] }

emit_event(guid, seq_num, ty, val) ==
    LET layoutRes == type_to_type_layout(ty) IN
    /\ ~consumed
    /\ Len(event_data) < MaxEvents
    /\ event_data' =
          IF layoutRes.ok
          THEN Append(event_data,
                      [guid |-> guid, seq_num |-> seq_num, ty |-> ty,
                       layout |-> layoutRes.v, val |-> val])
          ELSE event_data
    /\ handle' = None
    /\ SetLast("emit_event", <<guid, seq_num, ty, val>>,
               IF layoutRes.ok THEN Ok(<<>>) ELSE layoutRes, {})
    /\ hist' = [hist EXCEPT !.emitted =
                    IF layoutRes.ok
                    THEN Append(@, [guid |-> guid, seq_num |-> seq_num])
                    ELSE @]
    /\ UNCHANGED <<builder, remote, account_map, consumed>>

\* ---- into_effects --------------------------------------------------------
\* the module operation chosen with the republish flag read the wrong way
ModuleOp_Inverted(module_blob, is_republishing) ==
    IF is_republishing THEN Op_New(module_blob) ELSE Op_Modify(module_blob)

\* the operation of one module_map entry
ModuleOp(module_blob, is_republishing) ==
    IF is_republishing THEN Op_Modify(module_blob) ELSE Op_New(module_blob)

\* the module loop of one account: every module_map entry becomes an operation
RECURSIVE ModuleOps(_, _, _)
ModuleOps(module_map, names, modules) ==
    IF names = <<>> THEN modules
    ELSE LET module_name == Head(names)
             entry == module_map[module_name]
             op == ModuleOp(entry.blob, entry.is_republishing)
         IN  ModuleOps(module_map, Tail(names), MapInsert(modules, module_name, op))

\* the match recording a modified value as a created one
ResourceOp_ModifyAsNew(op, layout) ==
    CASE op.op = "New" -> Op_New(Data_Cached(op.data, layout))
      [] op.op = "Modify" -> Op_New(Data_Cached(op.data, layout))
      [] op.op = "Delete" -> Op_Delete

\* `match op`: the resource operation recorded for a slot's effect
ResourceOp(op, layout) ==
    CASE op.op = "New" -> Op_New(Data_Cached(op.data, layout))
      [] op.op = "Modify" -> Op_Modify(Data_Cached(op.data, layout))
      [] op.op = "Delete" -> Op_Delete

\* the resource loop of one account: Ok(resources) or the first error
RECURSIVE ResourceOps(_, _, _)
ResourceOps(data_map, tys, resources) ==
    IF tys = <<>> THEN Ok(resources)
    ELSE LET ty == Head(tys)
             layout == data_map[ty].layout
             eff == gv_into_effect(data_map[ty].gv)
         IN  IF ~eff.some THEN ResourceOps(data_map, Tail(tys), resources)
             ELSE LET tagRes == type_to_type_tag(ty) IN
                  IF ~tagRes.ok THEN Err(tagRes.err)
                  ELSE IF tagRes.v.kind # "Struct" THEN Err("INTERNAL_TYPE_ERROR")
                  ELSE LET struct_tag == tagRes.v IN
                       ResourceOps(data_map, Tail(tys),
                                   MapInsert(resources, struct_tag,
                                             ResourceOp(eff.v, layout)))

\* the test dropped: every touched account is added
AccountHasChanges_Always(modules, resources) == TRUE

\* `if !modules.is_empty() || !resources.is_empty()`
AccountHasChanges(modules, resources) ==
    modules # EmptyMap \/ resources # EmptyMap

\* the account loop: Ok(change_set) or the first error
RECURSIVE AccountsLoop(_, _, _)
AccountsLoop(map, addrs, change_set) ==
    IF addrs = <<>> THEN Ok(change_set)
    ELSE LET addr == Head(addrs)
             account_data_cache == map[addr]
             modules ==
                ModuleOps(account_data_cache.module_map,
                          KeysInOrder(NameOrder, DOMAIN account_data_cache.module_map),
                          EmptyMap)
             resRes ==
                ResourceOps(account_data_cache.data_map,
                            KeysInOrder(TypeOrder, DOMAIN account_data_cache.data_map),
                            EmptyMap)
         IN  IF ~resRes.ok THEN resRes
             ELSE IF AccountHasChanges(modules, resRes.v)
             THEN LET added ==
                         ChangeSet_add_account_changeset(change_set, addr,
                            AccountChangeSet_from_modules_resources(modules, resRes.v))
                  IN  IF ~added.ret.ok THEN Err("PANIC: accounts should be unique")
                      ELSE AccountsLoop(map, Tail(addrs), added.self)
             ELSE AccountsLoop(map, Tail(addrs), change_set)

\* the event put in front instead of pushed at the back
PushEvent_Front(events, e) == <<e>> \o events

\* events.push(..)
PushEvent(events, e) == Append(events, e)

\* the event loop dropping an event it cannot convert instead of failing
RECURSIVE EventsLoop_SkipFailed(_, _)
EventsLoop_SkipFailed(data, events) ==
    IF data = <<>> THEN Ok(events)
    ELSE LET e == Head(data)
             tagRes == type_to_type_tag(e.ty)
             blob == simple_serialize(e.val, e.layout)
         IN  IF ~tagRes.ok \/ ~blob.some THEN EventsLoop_SkipFailed(Tail(data), events)
             ELSE EventsLoop_SkipFailed(Tail(data),
                     PushEvent(events,
                               [guid |-> e.guid, seq_num |-> e.seq_num,
                                ty_tag |-> tagRes.v, blob |-> blob.v]))

\* the event loop: Ok(events) or the first error
RECURSIVE EventsLoop(_, _)
EventsLoop(data, events) ==
    IF data = <<>> THEN Ok(events)
    ELSE LET e == Head(data)
             tagRes == type_to_type_tag(e.ty)
         IN  IF ~tagRes.ok THEN Err(tagRes.err)
             ELSE LET blob == simple_serialize(e.val, e.layout) IN
                  IF ~blob.some THEN Err("INTERNAL_TYPE_ERROR")
                  ELSE EventsLoop(Tail(data),
                          PushEvent(events,
                                    [guid |-> e.guid, seq_num |-> e.seq_num,
                                     ty_tag |-> tagRes.v, blob |-> blob.v]))

IntoEffectsOutcome(map, data) ==
    LET csRes == AccountsLoop(map, KeysInOrder(AddrOrder, DOMAIN map), ChangeSet_new) IN
    IF ~csRes.ok THEN csRes
    ELSE LET evRes == EventsLoop(data, <<>>) IN
         IF ~evRes.ok THEN evRes
         ELSE Ok([change_set |-> csRes.v, events |-> evRes.v])

\* The cache is moved into the call; the model keeps its last contents as
\* the record of what was committed and only marks it consumed.
into_effects ==
    /\ ~consumed
    /\ consumed' = TRUE
    /\ handle' = None
    /\ SetLast("into_effects", <<>>, IntoEffectsOutcome(account_map, event_data), {})
    /\ UNCHANGED <<builder, remote, account_map, event_data, hist>>

\* ---- num_mutated_accounts ------------------------------------------------
\* the test without `addr != sender`
IsCountedAccount_SenderToo(addr, sender, entry) ==
    \E ty \in DOMAIN entry.data_map : gv_is_mutated(entry.data_map[ty].gv)

\* `addr != sender && entry.data_map.values().any(|(_, v)| v.is_mutated())`
IsCountedAccount(addr, sender, entry) ==
    /\ addr # sender
    /\ \E ty \in DOMAIN entry.data_map : gv_is_mutated(entry.data_map[ty].gv)

RECURSIVE CountMutated(_, _, _, _)
CountMutated(map, addrs, sender, total_mutated_accounts) ==
    IF addrs = <<>> THEN total_mutated_accounts
    ELSE LET addr == Head(addrs)
             entry == map[addr]
         IN  IF IsCountedAccount(addr, sender, entry)
             THEN CountMutated(map, Tail(addrs), sender, total_mutated_accounts + 1)
             ELSE CountMutated(map, Tail(addrs), sender, total_mutated_accounts)

NumMutatedAccounts(map, sender) ==
    CountMutated(map, KeysInOrder(AddrOrder, DOMAIN map), sender, 1)

num_mutated_accounts(sender) ==
    /\ ~consumed
    /\ handle' = None
    /\ SetLast("num_mutated_accounts", <<sender>>,
               Ok(NumMutatedAccounts(account_map, sender)), {})
    /\ UNCHANGED <<builder, remote, account_map, event_data, consumed, hist>>

Next ==
    \/ \E addr \in Addrs, ty \in Types : load_resource(addr, ty)
    \/ \E val \in CoinValues : move_to(val)
    \/ move_from
    \/ \E val \in CoinValues : write_ref(val)
    \/ \E id \in ModuleIds : load_module(id)
    \/ \E id \in ModuleIds, blob \in ModuleBlobs, flag \in BOOLEAN :
          publish_module(id, blob, flag)
    \/ \E id \in ModuleIds : exists_module(id)
    \/ \E e \in EventInputs : emit_event(e.guid, Len(event_data), e.ty, e.val)
    \/ \E sender \in Senders : num_mutated_accounts(sender)
    \/ into_effects

Spec == Init /\ [][Next]_vars

\* ------------------------------------------------------------------------
\* A client building effects by hand
\* ------------------------------------------------------------------------
cacheVars == <<remote, account_map, event_data, handle, consumed, lastOp, hist>>

ModuleOpInputs == {Op_New(<<10>>), Op_Modify(<<20>>)}
\* a typed value, raw bytes, a value that does not fit its recorded layout,
\* a deletion
ResourceOpInputs ==
    {Op_New(Data_Cached(Value("Coin", 1), "Coin")),
     Op_Modify(Data_Serialized(<<7, 0>>)),
     Op_Modify(Data_Cached(Value("U8", 1), "Coin")),
     Op_Delete}
BuilderModuleIds == {ModuleId(a, n) : a \in Addrs, n \in ModuleNames}
BuilderTags == {StructTag("Coin")}

BuilderStep(op, args, ret, acs, cs) ==
    /\ builder' = [acs |-> acs, cs |-> cs,
                   last |-> [op |-> op, args |-> args, ret |-> ret]]
    /\ UNCHANGED cacheVars

account_add_module_op(name, op) ==
    LET r == AccountChangeSet_add_module_op(builder.acs, name, op) IN
    BuilderStep("AccountChangeSet::add_module_op", <<name, op>>, r.ret, r.self, builder.cs)

account_add_resource_op(struct_tag, op) ==
    LET r == AccountChangeSet_add_resource_op(builder.acs, struct_tag, op) IN
    BuilderStep("AccountChangeSet::add_resource_op", <<struct_tag, op>>, r.ret, r.self,
                builder.cs)

\* the account change set built so far is moved into the call
add_account_changeset(addr) ==
    LET r == ChangeSet_add_account_changeset(builder.cs, addr, builder.acs) IN
    BuilderStep("ChangeSet::add_account_changeset", <<addr, builder.acs>>, r.ret,
                AccountChangeSet_new, r.self)

add_module_op(module_id, op) ==
    LET r == ChangeSet_add_module_op(builder.cs, module_id, op) IN
    BuilderStep("ChangeSet::add_module_op", <<module_id, op>>, r.ret, builder.acs, r.self)

add_resource_op(addr, struct_tag, op) ==
    LET r == ChangeSet_add_resource_op(builder.cs, addr, struct_tag, op) IN
    BuilderStep("ChangeSet::add_resource_op", <<addr, struct_tag, op>>, r.ret,
                builder.acs, r.self)

\* the ChangeSet built so far is moved into the conversion
try_from ==
    BuilderStep("BlobChangeSet::try_from", <<builder.cs>>,
                BlobChangeSet_try_from(builder.cs), builder.acs, ChangeSet_new)

NextEffects ==
    \/ \E name \in ModuleNames, op \in ModuleOpInputs : account_add_module_op(name, op)
    \/ \E tag \in BuilderTags, op \in ResourceOpInputs : account_add_resource_op(tag, op)
    \/ \E addr \in Addrs : add_account_changeset(addr)
    \/ \E id \in BuilderModuleIds, op \in ModuleOpInputs : add_module_op(id, op)
    \/ \E addr \in Addrs, tag \in BuilderTags, op \in ResourceOpInputs :
          add_resource_op(addr, tag, op)
    \/ try_from

InitEffects == Init /\ remote = Resolver(0)

SpecEffects == InitEffects /\ [][NextEffects]_vars

\* ------------------------------------------------------------------------
\* A caller that checks existence before it publishes
\* ------------------------------------------------------------------------
\* publish_module called with the result of the exists_module(module_id)
\* call made immediately before it; no publish without that result
publish_checked(module_id, blob) ==
    /\ lastOp.op = "exists_module"
    /\ lastOp.args = <<module_id>>
    /\ lastOp.ret.ok
    /\ publish_module(module_id, blob, lastOp.ret.v)

NextChecked ==
    \/ \E addr \in Addrs, ty \in Types : load_resource(addr, ty)
    \/ \E val \in CoinValues : move_to(val)
    \/ move_from
    \/ \E val \in CoinValues : write_ref(val)
    \/ \E id \in ModuleIds : load_module(id)
    \/ \E id \in ModuleIds, blob \in ModuleBlobs : publish_checked(id, blob)
    \/ \E id \in ModuleIds : exists_module(id)
    \/ \E e \in EventInputs : emit_event(e.guid, Len(event_data), e.ty, e.val)
    \/ \E sender \in Senders : num_mutated_accounts(sender)
    \/ into_effects

SpecChecked == Init /\ [][NextChecked]_vars

\* ------------------------------------------------------------------------
\* The operations that change the account map
\* ------------------------------------------------------------------------
NextKeyed ==
    \/ \E addr \in Addrs, ty \in Types : load_resource(addr, ty)
    \/ \E val \in CoinValues : move_to(val)
    \/ move_from
    \/ \E val \in CoinValues : write_ref(val)
    \/ \E id \in ModuleIds, blob \in ModuleBlobs, flag \in BOOLEAN :
          publish_module(id, blob, flag)

SpecKeyed == Init /\ [][NextKeyed]_vars

\* ------------------------------------------------------------------------
\* Properties
\* ------------------------------------------------------------------------
\* the key of the load_resource call recorded in a lastOp value
KeyOf(last) == <<last.args[1], last.args[2]>>

\* the type resolves to a struct tag and a layout, so a first load asks
\* the Resolver
Resolvable(ty) ==
    /\ type_to_type_tag(ty).ok
    /\ type_to_type_tag(ty).v.kind = "Struct"
    /\ type_to_type_layout(ty).ok

\* C1: once publish_module(id, bytes, _) has been called, load_module(id)
\* returns exactly the bytes of the last publish and makes no Resolver
\* query, whatever the Resolver holds for id: both for the call just made
\* and for a call made next from any reachable state.
C1_ModuleReadYourWrites ==
    /\ (lastOp.op = "load_module" /\ lastOp.args[1] \in DOMAIN hist.published)
          => /\ lastOp.ret = Ok(hist.published[lastOp.args[1]].blob)
             /\ lastOp.queried = {}
    /\ \A id \in DOMAIN hist.published :
          LoadModuleOutcome(id) =
             [ret |-> Ok(hist.published[id].blob), queried |-> {}]

\* load_module has just answered from the write set for an id the
\* Resolver fails on
C1_Witness ==
    /\ lastOp.op = "load_module"
    /\ lastOp.args[1] \in DOMAIN hist.published
    /\ ~get_module(lastOp.args[1]).ok
    /\ lastOp.ret.ok

\* C2: a load_resource(addr, ty) made after one that succeeded returns the
\* same slot, leaves every slot (and so every change made through an
\* earlier handle) as it is, and makes no Resolver query.
C2_ResourceReadYourWrites ==
    [][ (lastOp'.op = "load_resource" /\ KeyOf(lastOp') \in hist.loaded)
          => /\ lastOp'.ret.ok
             /\ lastOp'.ret.v.slot = KeyOf(lastOp')
             /\ handle' = Some(KeyOf(lastOp'))
             /\ lastOp'.queried = {}
             /\ account_map' = account_map ]_vars

\* the slot was changed through a handle and has just been loaded again
C2_Witness ==
    /\ lastOp.op = "load_resource"
    /\ lastOp.ret.ok
    /\ KeyOf(lastOp) \in hist.written
    /\ gv_is_mutated(account_map[lastOp.args[1]].data_map[lastOp.args[2]].gv)

\* the load signal a first successful load of key must carry
ExpectedSignal(key) ==
    LET answer == get_resource(key[1], type_to_type_tag(key[2]).v) IN
    IF answer.v.some THEN Some(Some(Len(answer.v.v))) ELSE Some(None)

\* C3 as claimed: the first load_resource call for a key returns a present
\* load signal, every later call for the key returns none.
C3_FirstCallSignals ==
    [][ (lastOp'.op = "load_resource" /\ Resolvable(lastOp'.args[2]))
          => IF KeyOf(lastOp') \notin hist.called
             THEN lastOp'.ret.ok /\ lastOp'.ret.v.load_res.some
             ELSE ~(lastOp'.ret.ok /\ lastOp'.ret.v.load_res.some) ]_vars

\* C3 amended: the first load_resource call for a key that succeeds
\* returns a present load signal (the byte length of the Resolver's bytes,
\* or "not found"); every call after it succeeds with no load signal; a
\* call that fails returns only an error and is not the first.
C3_FirstSuccessSignals ==
    [][ lastOp'.op = "load_resource"
          => IF KeyOf(lastOp') \in hist.loaded
             THEN lastOp'.ret.ok /\ lastOp'.ret.v.load_res = None
             ELSE /\ lastOp'.ret.ok =>
                       lastOp'.ret.v.load_res = ExpectedSignal(KeyOf(lastOp'))
                  /\ ~lastOp'.ret.ok => DOMAIN lastOp'.ret = {"ok", "err"} ]_vars

\* a key the Resolver holds bytes for has been loaded a second time, with
\* no load signal
C3_Witness ==
    /\ lastOp.op = "load_resource"
    /\ lastOp.ret.ok
    /\ lastOp.ret.v.load_res = None
    /\ ExpectedSignal(KeyOf(lastOp)) = Some(Some(2))

\* ---- the result of into_effects -------------------------------------------
Committed == lastOp.op = "into_effects" /\ lastOp.ret.ok
CommittedChangeSet == lastOp.ret.v.change_set
CommittedEvents == lastOp.ret.v.events

\* the operation the ChangeSet cs carries for a resource / a module, if any
ResourceEntry(cs, addr, tag) ==
    IF addr \in DOMAIN cs.accounts /\ tag \in DOMAIN cs.accounts[addr].resources
    THEN Some(cs.accounts[addr].resources[tag])
    ELSE None

ModuleEntry(cs, addr, name) ==
    IF addr \in DOMAIN cs.accounts /\ name \in DOMAIN cs.accounts[addr].modules
    THEN Some(cs.accounts[addr].modules[name])
    ELSE None

\* a loaded key: its slot, its layout, what the Resolver holds for it
SlotOf(key) == account_map[key[1]].data_map[key[2]]
TagOf(key) == type_to_type_tag(key[2]).v
PresentBefore(key) == get_resource(key[1], TagOf(key)).v.some
ValueBefore(key) ==
    simple_deserialize(get_resource(key[1], TagOf(key)).v.v, SlotOf(key).layout).v
PresentAtCommit(key) == gv_exists(SlotOf(key).gv)
CachedData(key) == Data_Cached(SlotOf(key).gv.val, SlotOf(key).layout)
DiffOf(key) == ResourceEntry(CommittedChangeSet, key[1], TagOf(key))

\* the cases of the diff that do not depend on what "changed" means
DiffCasesABE(key) ==
    /\ (~PresentBefore(key) /\ ~PresentAtCommit(key)) => DiffOf(key) = None
    /\ (~PresentBefore(key) /\ PresentAtCommit(key))
          => DiffOf(key) = Some(Op_New(CachedData(key)))
    /\ (PresentBefore(key) /\ ~PresentAtCommit(key)) => DiffOf(key) = Some(Op_Delete)

\* C4 as claimed: the diff of every loaded key compares the resource at
\* commit with the resource in the Resolver: present before and unchanged
\* at commit gives nothing, present before and changed gives Modify.
C4_DiffByValue ==
    Committed =>
       \A key \in hist.loaded :
          /\ DiffCasesABE(key)
          /\ (PresentBefore(key) /\ PresentAtCommit(key)
                 /\ SlotOf(key).gv.val = ValueBefore(key))
                => DiffOf(key) = None
          /\ (PresentBefore(key) /\ PresentAtCommit(key)
                 /\ SlotOf(key).gv.val # ValueBefore(key))
                => DiffOf(key) = Some(Op_Modify(CachedData(key)))

\* C4 amended: for every loaded key into_effects yields (a) nothing if
\* absent in the Resolver and absent at commit, (b) New if absent in the
\* Resolver and present at commit, (c) nothing if present in the Resolver
\* and no step was applied through the handle, (d) Modify with the value
\* at commit if present in the Resolver, some step was applied through the
\* handle and present at commit, also when that value equals the
\* Resolver's, (e) Delete if present in the Resolver and absent at commit.
C4_DiffByLineage ==
    Committed =>
       \A key \in hist.loaded :
          /\ DiffCasesABE(key)
          /\ (PresentBefore(key) /\ key \notin hist.written) => DiffOf(key) = None
          /\ (PresentBefore(key) /\ key \in hist.written /\ PresentAtCommit(key))
                => DiffOf(key) = Some(Op_Modify(CachedData(key)))

\* committed: a resource of the Resolver that was written through the
\* handle and holds the Resolver's value again is reported as Modify
C4_Witness ==
    /\ Committed
    /\ \E key \in hist.written :
          /\ PresentBefore(key)
          /\ PresentAtCommit(key)
          /\ SlotOf(key).gv.val = ValueBefore(key)
          /\ DiffOf(key) = Some(Op_Modify(CachedData(key)))

\* C5: for every module id publish_module was called for, the ChangeSet of
\* a successful into_effects carries under its address and name exactly
\* the operation of the stored entry: New(bytes) when the stored flag is
\* false, Modify(bytes) when it is true; never Delete, never nothing.
C5_ModuleAlwaysEmitted ==
    Committed =>
       \A id \in DOMAIN hist.published :
          LET stored == account_map[id.address].module_map[id.name] IN
          ModuleEntry(CommittedChangeSet, id.address, id.name) =
             Some(IF stored.is_republishing
                  THEN Op_Modify(stored.blob)
                  ELSE Op_New(stored.blob))

\* committed: a module published with the very bytes the Resolver holds,
\* at an address none of whose resources changed
C5_Witness ==
    /\ Committed
    /\ \E id \in DOMAIN hist.published :
          /\ get_module(id) = Ok(Some(hist.published[id].blob))
          /\ id.address \in DOMAIN CommittedChangeSet.accounts
          /\ CommittedChangeSet.accounts[id.address].resources = EmptyMap
          /\ account_map[id.address].data_map # EmptyMap

\* C6: the event log holds exactly the accepted emit_event calls in call
\* order (a failed emit_event appends nothing), and the event list of a
\* successful into_effects has one entry per accepted call, in that order,
\* with the id and the sequence number of the call.
C6_EventOrder ==
    /\ Len(event_data) = Len(hist.emitted)
    /\ \A i \in 1..Len(event_data) :
          [guid |-> event_data[i].guid, seq_num |-> event_data[i].seq_num]
             = hist.emitted[i]
    /\ Committed =>
          /\ Len(CommittedEvents) = Len(hist.emitted)
          /\ \A i \in 1..Len(hist.emitted) :
                /\ CommittedEvents[i].guid = hist.emitted[i].guid
                /\ CommittedEvents[i].seq_num = hist.emitted[i].seq_num

\* committed: two events with different sequence numbers, emitted around
\* resource and module operations
C6_Witness ==
    /\ Committed
    /\ Len(CommittedEvents) = 2
    /\ CommittedEvents[1].seq_num # CommittedEvents[2].seq_num
    /\ hist.loaded # {}
    /\ hist.published # EmptyMap

\* the touched addresses other than sender with a slot reporting mutated
MutatedOthers(sender) ==
    {a \in (DOMAIN account_map) \ {sender} :
        \E ty \in DOMAIN account_map[a].data_map :
           gv_is_mutated(account_map[a].data_map[ty].gv)}

\* C7: for every sender, num_mutated_accounts(sender) is 1 plus the number
\* of touched addresses other than sender holding a slot that reports
\* mutated, both for the call just made and for a call made next.
C7_MutatedCount ==
    /\ \A sender \in Senders :
          NumMutatedAccounts(account_map, sender)
             = 1 + Cardinality(MutatedOthers(sender))
    /\ lastOp.op = "num_mutated_accounts"
          => lastOp.ret = Ok(1 + Cardinality(MutatedOthers(lastOp.args[1])))

\* num_mutated_accounts has just returned 2 for a sender whose own
\* resource is mutated, next to one other mutated account
C7_Witness ==
    /\ lastOp.op = "num_mutated_accounts"
    /\ lastOp.ret = Ok(2)
    /\ lastOp.args[1] \in DOMAIN account_map
    /\ \E ty \in DOMAIN account_map[lastOp.args[1]].data_map :
          gv_is_mutated(account_map[lastOp.args[1]].data_map[ty].gv)

\* what an account contributes at commit
HasModuleWrites(a) == account_map[a].module_map # EmptyMap
HasResourceDiff(a) ==
    \E ty \in DOMAIN account_map[a].data_map :
       gv_into_effect(account_map[a].data_map[ty].gv).some

\* C9: in the ChangeSet of a successful into_effects every account entry
\* has a module or a resource operation, every operation is New, Modify
\* or Delete, and a touched address without published module and without
\* a slot that differs is not in the ChangeSet.
C9_MinimalDiff ==
    Committed =>
       /\ \A a \in DOMAIN CommittedChangeSet.accounts :
             LET acs == CommittedChangeSet.accounts[a] IN
             /\ acs.modules # EmptyMap \/ acs.resources # EmptyMap
             /\ \A n \in DOMAIN acs.modules :
                   acs.modules[n].op \in {"New", "Modify", "Delete"}
             /\ \A t \in DOMAIN acs.resources :
                   acs.resources[t].op \in {"New", "Modify", "Delete"}
       /\ \A a \in DOMAIN account_map :
             (~HasModuleWrites(a) /\ ~HasResourceDiff(a))
                => a \notin DOMAIN CommittedChangeSet.accounts

\* committed: one address was only read and is left out, another one is in
\* the ChangeSet
C9_Witness ==
    /\ Committed
    /\ CommittedChangeSet.accounts # EmptyMap
    /\ \E a \in DOMAIN account_map :
          /\ account_map[a].data_map # EmptyMap
          /\ a \notin DOMAIN CommittedChangeSet.accounts

\* an event into_effects cannot convert: its type has no tag or its value
\* does not serialize under its layout
EventFails(e) ==
    \/ ~type_to_type_tag(e.ty).ok
    \/ ~simple_serialize(e.val, e.layout).some

\* a slot with an effect whose type does not resolve to a struct tag
SlotFails(a, ty) ==
    /\ gv_into_effect(account_map[a].data_map[ty].gv).some
    /\ \/ ~type_to_type_tag(ty).ok
       \/ type_to_type_tag(ty).v.kind # "Struct"

CommitMustFail ==
    \/ \E i \in 1..Len(event_data) : EventFails(event_data[i])
    \/ \E a \in DOMAIN account_map :
          \E ty \in DOMAIN account_map[a].data_map : SlotFails(a, ty)

\* C10: into_effects returns either the whole result (a ChangeSet with
\* every touched address that has something to report, and one event per
\* logged event) or an error and nothing else; it returns the error
\* whenever some event or reported slot cannot be converted.
C10_NoPartialCommit ==
    lastOp.op = "into_effects" =>
       IF CommitMustFail
       THEN ~lastOp.ret.ok /\ DOMAIN lastOp.ret = {"ok", "err"}
       ELSE /\ lastOp.ret.ok
            /\ DOMAIN lastOp.ret.v = {"change_set", "events"}
            /\ Len(CommittedEvents) = Len(event_data)
            /\ DOMAIN CommittedChangeSet.accounts =
                  {a \in DOMAIN account_map : HasModuleWrites(a) \/ HasResourceDiff(a)}

\* into_effects failed on the second event, after a first event and an
\* account with a published module went through
C10_Witness ==
    /\ lastOp.op = "into_effects"
    /\ ~lastOp.ret.ok
    /\ Len(event_data) = 2
    /\ ~EventFails(event_data[1])
    /\ EventFails(event_data[2])
    /\ hist.published # EmptyMap

\* ---- the builders of the effects model -------------------------------------
\* the entry a map holds for a key, if any
EntryOf(map, k) == IF k \in DOMAIN map THEN Some(map[k]) ELSE None

AccountOfChangeSet(cs, addr) ==
    IF addr \in DOMAIN cs.accounts THEN cs.accounts[addr] ELSE AccountChangeSet_new

\* a builder call on an occupied key fails and changes nothing; on a free
\* key it succeeds and the key then carries the given entry
BuilderContract(before, after, ret, same, given) ==
    IF before.some
    THEN ~ret.ok /\ same
    ELSE ret.ok /\ after = Some(given)

\* C8: each of the five builder calls returns an error when its key
\* (module name, struct tag or address) already carries an entry, leaving
\* the AccountChangeSet / ChangeSet exactly as it was; when the key is
\* free it succeeds and stores the given operation or account change set.
C8_BuilderUniqueness ==
    [][ LET last == builder'.last
            acs == builder.acs
            cs == builder.cs
            acs2 == builder'.acs
            cs2 == builder'.cs
        IN
        /\ last.op = "AccountChangeSet::add_module_op" =>
              BuilderContract(EntryOf(acs.modules, last.args[1]),
                              EntryOf(acs2.modules, last.args[1]),
                              last.ret, acs2 = acs /\ cs2 = cs, last.args[2])
        /\ last.op = "AccountChangeSet::add_resource_op" =>
              BuilderContract(EntryOf(acs.resources, last.args[1]),
                              EntryOf(acs2.resources, last.args[1]),
                              last.ret, acs2 = acs /\ cs2 = cs, last.args[2])
        /\ last.op = "ChangeSet::add_account_changeset" =>
              BuilderContract(EntryOf(cs.accounts, last.args[1]),
                              EntryOf(cs2.accounts, last.args[1]),
                              last.ret, cs2 = cs, last.args[2])
        /\ last.op = "ChangeSet::add_module_op" =>
              BuilderContract(
                 EntryOf(AccountOfChangeSet(cs, last.args[1].address).modules,
                         last.args[1].name),
                 EntryOf(AccountOfChangeSet(cs2, last.args[1].address).modules,
                         last.args[1].name),
                 last.ret, cs2 = cs /\ acs2 = acs, last.args[2])
        /\ last.op = "ChangeSet::add_resource_op" =>
              BuilderContract(
                 EntryOf(AccountOfChangeSet(cs, last.args[1]).resources, last.args[2]),
                 EntryOf(AccountOfChangeSet(cs2, last.args[1]).resources, last.args[2]),
                 last.ret, cs2 = cs /\ acs2 = acs, last.args[3]) ]_vars

\* ChangeSet::add_module_op has just been refused for a module name that
\* carries a different operation, which is still there
C8_Witness ==
    /\ builder.last.op = "ChangeSet::add_module_op"
    /\ ~builder.last.ret.ok
    /\ LET id == builder.last.args[1] IN
       /\ id.address \in DOMAIN builder.cs.accounts
       /\ id.name \in DOMAIN builder.cs.accounts[id.address].modules
       /\ builder.cs.accounts[id.address].modules[id.name] # builder.last.args[2]

\* ---- the republish flag under a caller that checks first ---------------------
\* the Resolver held a module under id before the transaction
ResolverHas(id) == get_module(id).ok /\ get_module(id).v.some

StoredModule(map, id) ==
    IF id.address \in DOMAIN map
    THEN EntryOf(map[id.address].module_map, id.name)
    ELSE None

\* C11 as claimed: when every publish_module is given the result of the
\* exists_module check made right before it, the flag stored at commit is
\* true exactly for the modules the Resolver held, and into_effects emits
\* Modify exactly for those and New for the others.
C11_FlagIffPreExisted ==
    Committed =>
       \A id \in DOMAIN hist.published :
          /\ StoredModule(account_map, id).v.is_republishing = ResolverHas(id)
          /\ ModuleEntry(CommittedChangeSet, id.address, id.name).v.op =
                IF ResolverHas(id) THEN "Modify" ELSE "New"

\* C11 amended: when every publish_module is given the result of the
\* exists_module check made right before it, the flag a publish stores is
\* true exactly when the Resolver held the module or the module had
\* already been published in this transaction; no other call changes a
\* stored module; into_effects emits Modify for a stored true flag and New
\* for a stored false one.  So a module published once is Modify exactly
\* when it pre-existed, and a module published more than once is Modify.
C11_FlagFromExistsCheck ==
    /\ [][ \A id \in ModuleIds :
             IF lastOp'.op = "publish_module" /\ lastOp'.args[1] = id
             THEN /\ StoredModule(account_map', id).some
                  /\ StoredModule(account_map', id).v.is_republishing =
                        (ResolverHas(id) \/ StoredModule(account_map, id).some)
             ELSE StoredModule(account_map', id) = StoredModule(account_map, id) ]_vars
    /\ [](Committed =>
             \A id \in ModuleIds :
                LET stored == StoredModule(account_map, id) IN
                ModuleEntry(CommittedChangeSet, id.address, id.name) =
                   IF ~stored.some THEN None
                   ELSE IF stored.v.is_republishing
                        THEN Some(Op_Modify(stored.v.blob))
                        ELSE Some(Op_New(stored.v.blob)))

\* committed: a module the Resolver does not hold, published twice by a
\* caller that checked first, is emitted as Modify
C11_Witness ==
    /\ Committed
    /\ \E id \in DOMAIN hist.published :
          /\ get_module(id) = Ok(None)
          /\ ModuleEntry(CommittedChangeSet, id.address, id.name).v.op = "Modify"

\* ---- when the Resolver is asked ------------------------------------------------
ModuleAccess == {"load_module", "exists_module", "publish_module"}

\* the resource / module key a Resolver query is for
IsResourceQuery(q) == q[1] = "get_resource"
IsModuleQuery(q) == q[1] = "get_module"

\* C12 as claimed: the Resolver is asked for a key only on the first access
\* of the key: never for a resource key an earlier load_resource already
\* asked for or returned a slot for, never for a module key the call
\* before already accessed.
C12_QueryOnlyOnFirstAccess ==
    [][ \A q \in lastOp'.queried :
          /\ IsResourceQuery(q) => KeyOf(lastOp') \notin hist.called
          /\ IsModuleQuery(q) =>
                ~(lastOp.op \in ModuleAccess /\ lastOp.args[1] = q[2]) ]_vars

\* C12 amended: a resource key is asked for at the Resolver by every
\* load_resource up to and including the first that succeeds (one query per
\* call whose type resolves), and by none after it; a module key is asked
\* for by every load_module and exists_module (one query per call) until
\* the module is published in this transaction, and by none after that:
\* nothing read from the Resolver for a module is kept.
C12_QueryUntilHeld ==
    [][ /\ lastOp'.op = "load_resource" =>
             lastOp'.queried =
                IF KeyOf(lastOp') \in hist.loaded \/ ~Resolvable(lastOp'.args[2])
                THEN {}
                ELSE {<<"get_resource", lastOp'.args[1],
                        type_to_type_tag(lastOp'.args[2]).v>>}
        /\ lastOp'.op \in {"load_module", "exists_module"} =>
             lastOp'.queried =
                IF lastOp'.args[1] \in DOMAIN hist.published
                THEN {}
                ELSE {<<"get_module", lastOp'.args[1]>>}
        /\ lastOp'.op \notin {"load_resource", "load_module", "exists_module"} =>
             lastOp'.queried = {} ]_vars

\* exists_module has just asked the Resolver for a module it holds, while
\* a resource is held in a slot and another resource key was asked for
\* without a slot being installed
C12_Witness ==
    /\ lastOp.op = "exists_module"
    /\ lastOp.queried # {}
    /\ lastOp.ret = Ok(TRUE)
    /\ hist.loaded # {}
    /\ hist.called \ hist.loaded # {}

\* ---- load_module and exists_module outside the write set -----------------------
\* what load_module must return for an id that is not in the write set
ExpectedLoadModule(id) ==
    LET answer == get_module(id) IN
    IF ~answer.ok
    THEN [ok |-> FALSE, err |-> "UNKNOWN_INVARIANT_VIOLATION_ERROR",
          msg |-> <<"Unexpected storage error", answer.err>>]
    ELSE IF answer.v.some THEN Ok(answer.v.v)
    ELSE [ok |-> FALSE, err |-> "LINKER_ERROR",
          msg |-> <<"Cannot find in data cache", id>>]

\* C13: for an id that is not in the write set, load_module returns the
\* Resolver's bytes when the Resolver has the module, a linker error when
\* it answers absent, and an invariant-violation error carrying the
\* Resolver's failure when it fails (both for the call just made and for
\* a call made next); no load_module call changes the account map, the
\* event log or the Resolver.
C13_LoadModuleErrors ==
    /\ [](\A id \in ModuleIds :
             (~StoredModule(account_map, id).some) =>
                /\ LoadModuleOutcome(id).ret = ExpectedLoadModule(id)
                /\ (lastOp.op = "load_module" /\ lastOp.args[1] = id)
                      => lastOp.ret = ExpectedLoadModule(id))
    /\ [][ lastOp'.op = "load_module" =>
             /\ account_map' = account_map
             /\ event_data' = event_data
             /\ remote' = remote ]_vars

\* load_module has just failed on a failing Resolver, in a cache that
\* holds an account entry and an event
C13_Witness ==
    /\ lastOp.op = "load_module"
    /\ ~lastOp.ret.ok
    /\ lastOp.ret.err = "UNKNOWN_INVARIANT_VIOLATION_ERROR"
    /\ lastOp.ret.msg[2] = "IO_FAILURE"
    /\ account_map # EmptyMap
    /\ event_data # <<>>

\* what exists_module must return and ask for
ExpectedExistsModule(id) ==
    IF StoredModule(account_map, id).some
    THEN [ret |-> Ok(TRUE), queried |-> {}]
    ELSE [ret |-> IF ~get_module(id).ok
                  THEN [ok |-> FALSE, err |-> "STORAGE_ERROR"]
                  ELSE Ok(get_module(id).v.some),
          queried |-> {<<"get_module", id>>}]

\* C14: in every reachable state exists_module(id) returns true without a
\* Resolver query if id was published in this cache; otherwise it returns
\* true when the Resolver has the module, false when it answers absent,
\* and a storage error when the Resolver fails (both for the call just
\* made and for a call made next); whenever exists_module(id) does not
\* fail, it is true exactly when load_module(id) succeeds.
C14_ExistsModuleLookup ==
    \A id \in ModuleIds :
       /\ ExistsModuleOutcome(id) = ExpectedExistsModule(id)
       /\ (lastOp.op = "exists_module" /\ lastOp.args[1] = id)
             => /\ lastOp.ret = ExpectedExistsModule(id).ret
                /\ lastOp.queried = ExpectedExistsModule(id).queried
       /\ ExistsModuleOutcome(id).ret.ok
             => (ExistsModuleOutcome(id).ret.v <=> LoadModuleOutcome(id).ret.ok)

\* exists_module has just answered true without a query for a published
\* module the Resolver does not hold
C14_Witness ==
    /\ lastOp.op = "exists_module"
    /\ lastOp.ret = Ok(TRUE)
    /\ lastOp.queried = {}
    /\ get_module(lastOp.args[1]) = Ok(None)

\* ---- failures of load_resource --------------------------------------------------
\* the error a first load of (addr, ty) must fail with and the queries it
\* makes before failing, or None when it must succeed
ExpectedLoadError(addr, ty) ==
    LET tagRes == type_to_type_tag(ty)
        layoutRes == type_to_type_layout(ty)
    IN  IF ~tagRes.ok THEN Some([err |-> tagRes.err, queried |-> {}])
        ELSE IF tagRes.v.kind # "Struct"
        THEN Some([err |-> "INTERNAL_TYPE_ERROR", queried |-> {}])
        ELSE IF ~layoutRes.ok THEN Some([err |-> layoutRes.err, queried |-> {}])
        ELSE LET answer == get_resource(addr, tagRes.v)
                 q == {<<"get_resource", addr, tagRes.v>>}
             IN  IF ~answer.ok
                 THEN Some([err |-> "UNKNOWN_INVARIANT_VIOLATION_ERROR", queried |-> q])
                 ELSE IF answer.v.some /\ ~simple_deserialize(answer.v.v, layoutRes.v).some
                 THEN Some([err |-> "FAILED_TO_DESERIALIZE_RESOURCE", queried |-> q])
                 ELSE None

HasSlot(map, addr, ty) == addr \in DOMAIN map /\ ty \in DOMAIN map[addr].data_map

\* C15: a load_resource for a key without slot fails with
\* internal-type-error, before any Resolver query, when the type's tag is
\* not a struct tag, with an invariant-violation error when the Resolver
\* fails, and with FailedToDeserializeResource when the Resolver's bytes
\* do not decode under the layout; a failed load_resource returns only
\* the error (no load signal), installs no slot and changes no slot; and
\* a load_resource for a key whose loads have failed so far is again a
\* first access: it asks the Resolver again.
C15_LoadResourceErrors ==
    /\ [][ (lastOp'.op = "load_resource"
              /\ ~HasSlot(account_map, lastOp'.args[1], lastOp'.args[2])) =>
             LET addr == lastOp'.args[1]
                 ty == lastOp'.args[2]
                 expected == ExpectedLoadError(addr, ty)
             IN  IF expected.some
                 THEN /\ lastOp'.ret = [ok |-> FALSE, err |-> expected.v.err]
                      /\ lastOp'.queried = expected.v.queried
                      /\ ~HasSlot(account_map', addr, ty)
                      /\ handle' = None
                      /\ \A a \in DOMAIN account_map : account_map'[a] = account_map[a]
                 ELSE lastOp'.ret.ok /\ HasSlot(account_map', addr, ty) ]_vars
    /\ [](\A key \in hist.called \ hist.loaded :
             /\ ~HasSlot(account_map, key[1], key[2])
             /\ LoadResourceOutcome(key[1], key[2]).queried =
                   {<<"get_resource", key[1], type_to_type_tag(key[2]).v>>})

\* load_resource has just failed on bytes that do not decode, next to a
\* slot another load installed
C15_Witness ==
    /\ lastOp.op = "load_resource"
    /\ ~lastOp.ret.ok
    /\ lastOp.ret.err = "FAILED_TO_DESERIALIZE_RESOURCE"
    /\ hist.loaded # {}
    /\ KeyOf(lastOp) \in hist.called \ hist.loaded

\* ---- what an operation may touch -------------------------------------------------
WriteOps ==
    {"publish_module", "emit_event", "num_mutated_accounts", "into_effects",
     "move_to", "move_from", "write_ref"}

\* C16: no operation changes the Resolver (so it answers every point read
\* as it did before the transaction), and publish_module, emit_event,
\* num_mutated_accounts, into_effects and the changes made through a
\* handle make no Resolver query.
C16_ResolverUntouched ==
    [][ /\ remote' = remote
        /\ lastOp'.op \in WriteOps => lastOp'.queried = {} ]_vars

\* committed after a publish, a change through a handle and an event: the
\* Resolver still answers differently from the write set
C16_Witness ==
    /\ Committed
    /\ hist.written # {}
    /\ event_data # <<>>
    /\ \E id \in DOMAIN hist.published :
          get_module(id) # Ok(Some(hist.published[id].blob))
    /\ \E key \in hist.written : DiffOf(key).some

ReadOnlyOps == {"num_mutated_accounts", "load_module", "exists_module"}

\* C17: num_mutated_accounts, load_module and exists_module, whether they
\* succeed or fail, change neither the account map nor the event log (nor
\* mark the cache consumed), so into_effects, whose result is computed
\* from the account map and the event log alone, yields the same
\* ChangeSet and event list after the call as before it; and the count
\* num_mutated_accounts returned is the count a repeated call with the
\* same sender returns.
C17_ReadOnlyOps ==
    [][ lastOp'.op \in ReadOnlyOps =>
          /\ account_map' = account_map
          /\ event_data' = event_data
          /\ consumed' = consumed
          /\ lastOp'.op = "num_mutated_accounts" =>
                lastOp'.ret = Ok(NumMutatedAccounts(account_map', lastOp'.args[1])) ]_vars

\* exists_module has just failed for a module whose address holds no
\* account entry, in a cache that holds another one
C17_Witness ==
    /\ lastOp.op = "exists_module"
    /\ ~lastOp.ret.ok
    /\ lastOp.args[1].address \notin DOMAIN account_map
    /\ account_map # EmptyMap

\* ---- conversion to the pure-bytes form -------------------------------------------
\* the payload can be encoded: raw bytes always, a value when it fits its
\* recorded layout
Encodable(op) ==
    \/ op.op = "Delete"
    \/ op.data.form = "Serialized"
    \/ op.data.value.kind = op.data.layout

AllEncodable(cs) ==
    \A a \in DOMAIN cs.accounts :
       \A t \in DOMAIN cs.accounts[a].resources : Encodable(cs.accounts[a].resources[t])

\* the bytes operation a resource operation converts to
ExpectedBlobOp(op) ==
    CASE op.op = "Delete" -> [op |-> "Delete"]
      [] op.op # "Delete" /\ op.data.form = "Serialized" ->
            [op |-> op.op, data |-> op.data.blob]
      [] OTHER ->
            [op |-> op.op,
             data |-> IF op.data.layout = "Coin"
                      THEN <<op.data.value.n, 0>> ELSE <<op.data.value.n>>]

\* C18: converting a ChangeSet whose resource payloads can all be encoded
\* succeeds with the same addresses, the same module operations and, per
\* struct tag, the same kind of operation carrying the Serialized bytes
\* unchanged or the Cached value encoded under its layout; converting one
\* with a payload that cannot be encoded returns internal-type-error and
\* nothing else.
C18_BlobConversion ==
    builder.last.op = "BlobChangeSet::try_from" =>
       LET cs == builder.last.args[1]
           ret == builder.last.ret
       IN  IF AllEncodable(cs)
           THEN /\ ret.ok
                /\ DOMAIN ret.v.accounts = DOMAIN cs.accounts
                /\ \A a \in DOMAIN cs.accounts :
                      /\ ret.v.accounts[a].modules = cs.accounts[a].modules
                      /\ DOMAIN ret.v.accounts[a].resources
                            = DOMAIN cs.accounts[a].resources
                      /\ \A t \in DOMAIN cs.accounts[a].resources :
                            ret.v.accounts[a].resources[t]
                               = ExpectedBlobOp(cs.accounts[a].resources[t])
           ELSE ret = [ok |-> FALSE, err |-> "INTERNAL_TYPE_ERROR"]

\* a ChangeSet with a module operation, raw bytes at one address and a
\* typed value at the other has just been converted
C18_Witness ==
    /\ builder.last.op = "BlobChangeSet::try_from"
    /\ builder.last.ret.ok
    /\ LET cs == builder.last.args[1] IN
       /\ \E a \in DOMAIN cs.accounts : cs.accounts[a].modules # EmptyMap
       /\ \E a \in DOMAIN cs.accounts :
             \E t \in DOMAIN cs.accounts[a].resources :
                /\ cs.accounts[a].resources[t].op # "Delete"
                /\ cs.accounts[a].resources[t].data.form = "Serialized"
       /\ \E a \in DOMAIN cs.accounts :
             \E t \in DOMAIN cs.accounts[a].resources :
                /\ cs.accounts[a].resources[t].op # "Delete"
                /\ cs.accounts[a].resources[t].data.form = "Cached"

\* ---- operations on different keys commute -----------------------------------------
\* The operations on one key: loads and slot changes of a resource key,
\* publishes of a module key.
LoadOps == {[kind |-> "load", addr |-> a, ty |-> t] : a \in Addrs, t \in Types}
SlotOps ==
    {[kind |-> "slot", addr |-> a, ty |-> t, op |-> o, val |-> v] :
        a \in Addrs, t \in Types, o \in {"move_to", "write_ref"}, v \in CoinValues}
    \cup {[kind |-> "slot", addr |-> a, ty |-> t, op |-> "move_from",
           val |-> Value("Coin", 1)] : a \in Addrs, t \in Types}
PublishOps ==
    {[kind |-> "publish", addr |-> id.address, name |-> id.name, blob |-> b, flag |-> f] :
        id \in ModuleIds, b \in ModuleBlobs, f \in BOOLEAN}

OpKey(o) ==
    IF o.kind = "publish" THEN <<"module", o.addr, o.name>>
    ELSE <<"resource", o.addr, o.ty>>

SlotResult(map, o) ==
    LET gv == map[o.addr].data_map[o.ty].gv IN
    CASE o.op = "move_to" -> gv_move_to(gv, o.val)
      [] o.op = "move_from" -> gv_move_from(gv)
      [] o.op = "write_ref" -> gv_write(gv, o.val)

\* a slot change needs the slot and must be accepted by it
OpEnabled(map, o) ==
    o.kind = "slot" => (HasSlot(map, o.addr, o.ty) /\ SlotResult(map, o).ok)

\* the account map after the operation
ApplyOp(map, o) ==
    CASE o.kind = "load" -> LoadResourceOn(map, o.addr, o.ty).map
      [] o.kind = "slot" -> SlotOn(map, <<o.addr, o.ty>>, SlotResult(map, o).v)
      [] o.kind = "publish" ->
            PublishOn(map, ModuleId(o.addr, o.name), o.blob, o.flag)

\* what the operation returns to its caller
OpResult(map, o) ==
    CASE o.kind = "load" -> LoadResourceOn(map, o.addr, o.ty).ret
      [] o.kind = "slot" -> Ok(<<>>)
      [] o.kind = "publish" -> Ok(<<>>)

\* the elements of a set in some fixed order
RECURSIVE SetToSeq(_)
SetToSeq(S) ==
    IF S = {} THEN <<>>
    ELSE LET x == CHOOSE y \in S : TRUE IN <<x>> \o SetToSeq(S \ {x})

AllOps == SetToSeq(LoadOps) \o SetToSeq(SlotOps) \o SetToSeq(PublishOps)

\* a and b, on different keys, applied in either order from the account
\* map `map`: each stays possible after the other and returns the same,
\* and both orders give the same account map, the same ChangeSet and the
\* same num_mutated_accounts results
Diamond(map, a, b) ==
    (OpKey(a) # OpKey(b) /\ OpEnabled(map, a) /\ OpEnabled(map, b)) =>
       LET ma == ApplyOp(map, a)
           mb == ApplyOp(map, b)
           ab == ApplyOp(ma, b)
           ba == ApplyOp(mb, a)
       IN  /\ OpEnabled(ma, b)
           /\ OpEnabled(mb, a)
           /\ OpResult(ma, b) = OpResult(map, b)
           /\ OpResult(mb, a) = OpResult(map, a)
           /\ ab = ba
           /\ IntoEffectsOutcome(ab, <<>>) = IntoEffectsOutcome(ba, <<>>)
           /\ \A sender \in Senders :
                 NumMutatedAccounts(ab, sender) = NumMutatedAccounts(ba, sender)

\* C19: from every reachable account map, two operations on different
\* keys give the same account map in either order, hence the same
\* ChangeSet from into_effects and the same num_mutated_accounts results:
\* sequences that differ only in how they interleave different keys end
\* in the same ChangeSet and the same counts.
C19_OrderIrrelevant ==
    \A i \in 1..Len(AllOps) :
       \A j \in (i + 1)..Len(AllOps) : Diamond(account_map, AllOps[i], AllOps[j])

\* a module was published at an address that holds a changed slot, and a
\* load of another type and a publish at that address can both follow,
\* each changing the account map
C19_Witness ==
    /\ lastOp.op = "publish_module"
    /\ \E key \in hist.written :
          /\ key[1] = lastOp.args[1].address
          /\ gv_is_mutated(SlotOf(key).gv)
    /\ \E a \in SlotOps, b \in PublishOps :
          /\ a.addr = b.addr
          /\ OpEnabled(account_map, a)
          /\ ApplyOp(account_map, a) # account_map
          /\ ApplyOp(account_map, b) # account_map

\* ---- publishing a module more than once --------------------------------------------
\* C20: every publish_module call succeeds and leaves under the module id
\* exactly the bytes and the flag of that call, whatever was stored
\* before, and load_module then returns those bytes; so in every state
\* the stored entry is that of the most recent publish, and the ChangeSet
\* of a successful into_effects carries for the module the one operation
\* built from the bytes and the flag of the most recent publish.
C20_LastPublishWins ==
    /\ [][ \A id \in ModuleIds :
             (lastOp'.op = "publish_module" /\ lastOp'.args[1] = id) =>
             /\ lastOp'.ret = Ok(<<>>)
             /\ StoredModule(account_map', id) =
                   Some([blob |-> lastOp'.args[2], is_republishing |-> lastOp'.args[3]])
             /\ LoadModuleOutcome(id)' = [ret |-> Ok(lastOp'.args[2]), queried |-> {}] ]_vars
    /\ [](\A id \in DOMAIN hist.published :
             /\ StoredModule(account_map, id) = Some(hist.published[id])
             /\ Committed =>
                   ModuleEntry(CommittedChangeSet, id.address, id.name) =
                      Some(IF hist.published[id].is_republishing
                           THEN Op_Modify(hist.published[id].blob)
                           ELSE Op_New(hist.published[id].blob)))

\* publish_module has just replaced an entry with other bytes and the
\* other flag
C20_Witness ==
    /\ lastOp.op = "publish_module"
    /\ lastOp.replaced.some
    /\ lastOp.replaced.v.blob # lastOp.args[2]
    /\ lastOp.replaced.v.is_republishing # lastOp.args[3]
    /\ StoredModule(account_map, lastOp.args[1]).v.blob = lastOp.args[2]

\* ---- a load_resource that fails ------------------------------------------------------
\* C21: a load_resource(addr, ty) that returns an error leaves the event
\* log and every existing account entry (its slots and its modules) as
\* they were; the only change is an empty account entry for addr when addr
\* had none, and then into_effects, num_mutated_accounts for every sender,
\* load_module and exists_module give what they gave before the call.
C21_FailedLoadUnobservable ==
    [][ (lastOp'.op = "load_resource" /\ ~lastOp'.ret.ok) =>
          LET addr == lastOp'.args[1] IN
          /\ event_data' = event_data
          /\ consumed' = consumed
          /\ DOMAIN account_map' = (DOMAIN account_map) \cup {addr}
          /\ \A a \in DOMAIN account_map : account_map'[a] = account_map[a]
          /\ addr \notin DOMAIN account_map =>
                /\ account_map'[addr] = [data_map |-> EmptyMap, module_map |-> EmptyMap]
                /\ IntoEffectsOutcome(account_map', event_data')
                      = IntoEffectsOutcome(account_map, event_data)
                /\ \A sender \in Senders :
                      NumMutatedAccounts(account_map', sender)
                         = NumMutatedAccounts(account_map, sender)
                /\ \A id \in ModuleIds :
                      /\ LoadModuleOutcome(id)' = LoadModuleOutcome(id)
                      /\ ExistsModuleOutcome(id)' = ExistsModuleOutcome(id) ]_vars

\* load_resource has just failed at an address that had no account entry
\* and now has an empty one, next to an account with a changed slot and
\* with an event in the log
C21_Witness ==
    /\ lastOp.op = "load_resource"
    /\ ~lastOp.ret.ok
    /\ account_map[lastOp.args[1]] = [data_map |-> EmptyMap, module_map |-> EmptyMap]
    /\ \E key \in hist.written :
          key[1] # lastOp.args[1] /\ gv_is_mutated(SlotOf(key).gv)
    /\ event_data # <<>>

====
